---- MODULE Spec2Model ----
(***************************************************************************)
(* A model of SQLAlchemyMagic: the InitMagic connection factory with its   *)
(* lazily cached engines and session factories and its scoped sessions,    *)
(* the SessionMixin model proxy, the SessionRequired decorator and the     *)
(* DBManager model registry.                                               *)
(***************************************************************************)
EXTENDS Naturals, Sequences, FiniteSets

(***************************************************************************)
(* Values.  Python objects are records, so that any two of them compare.   *)
(***************************************************************************)
None == [kind |-> "None"]
Str(s) == [kind |-> "str", val |-> s]
\* the connection strings a caller may pass: absent, empty, or a URL
Urls == {None, Str(""), Str("sqlite:///:memory:")}
\* Python truthiness of an optional string: None and "" are falsy
Truthy(v) == v # None /\ v # Str("")

Exc(cls, isExc) == [kind |-> "exc", cls |-> cls, isException |-> isExc]
ValueError == Exc("ValueError", TRUE)
RuntimeError == Exc("RuntimeError", TRUE)
\* the faults the environment may raise inside a scope
BodyError == Exc("BodyError", TRUE)
CommitError == Exc("CommitError", TRUE)
RollbackError == Exc("RollbackError", TRUE)
CloseError == Exc("CloseError", TRUE)
\* asyncio.CancelledError derives from BaseException, not from Exception
CancelledError == Exc("CancelledError", FALSE)
\* `except Exception:` catches e
ExceptException(e) == e.kind = "exc" /\ e.isException

Modes == {"sync", "async"}
Threads == {1, 2}

VARIABLES
  built,          \* "no" before InitMagic(...), then "yes" or "failed"
  initArgs,       \* the connection strings InitMagic(...) was called with
  initError,      \* what InitMagic(...) raised, or None
  url,            \* mode -> self.sync_url / self.async_url
  engineField,    \* mode -> self._sync_engine / self._async_engine
  makerField,     \* mode -> self._sync_sessionmaker / self._async_sessionmaker
  nEngines,       \* mode -> calls of create_engine / create_async_engine
  nMakers,        \* mode -> calls of sessionmaker / async_sessionmaker
  gotEngines,     \* mode -> the objects the engine property has returned
  gotMakers,      \* mode -> the objects the session-factory property returned
  refused,        \* the modes an access of which raised a configuration error
  callers,        \* the threads (or tasks) that use the instance
  pc,             \* thread -> position in the operation it runs
  frame,          \* thread -> the locals of the operation it runs
  last            \* thread -> the outcome of the operation it ran last

magicVars == <<built, initArgs, initError, url, engineField, makerField,
               nEngines, nMakers, gotEngines, gotMakers, refused, callers, pc,
               frame, last>>

NoFrame == [op |-> "none", mode |-> "sync", commit |-> FALSE, new |-> None,
            engine |-> None, body |-> "none", exc |-> None, calls |-> <<>>,
            before |-> <<>>]
NoLast == [op |-> "none", mode |-> "sync", commit |-> FALSE, raised |-> None,
           value |-> None, body |-> "none", calls |-> <<>>, entered |-> FALSE,
           kept |-> TRUE]

\* the four cached fields, as one value
Fields == <<engineField, makerField>>

InitMagicState ==
  /\ built = "no"
  /\ initArgs = <<None, None>>
  /\ initError = None
  /\ url = [m \in Modes |-> None]
  /\ engineField = [m \in Modes |-> None]
  /\ makerField = [m \in Modes |-> None]
  /\ nEngines = [m \in Modes |-> 0]
  /\ nMakers = [m \in Modes |-> 0]
  /\ gotEngines = [m \in Modes |-> {}]
  /\ gotMakers = [m \in Modes |-> {}]
  /\ refused = {}
  /\ pc = [t \in Threads |-> "idle"]
  /\ frame = [t \in Threads |-> NoFrame]
  /\ last = [t \in Threads |-> NoLast]
  /\ callers = {1}

(***************************************************************************)
(* InitMagic.__init__                                                      *)
(***************************************************************************)
\* the guard of __init__: neither connection string is usable
NoUrlGiven(su, au) == ~Truthy(su) /\ ~Truthy(au)

Construct(su, au) ==
  /\ built = "no"
  /\ initArgs' = <<su, au>>
  /\ IF NoUrlGiven(su, au)
       THEN /\ built' = "failed"
            /\ initError' = ValueError
            /\ UNCHANGED url
       ELSE /\ built' = "yes"
            /\ initError' = None
            /\ url' = [sync |-> su, async |-> au]
  /\ engineField' = [m \in Modes |-> None]
  /\ makerField' = [m \in Modes |-> None]
  /\ UNCHANGED <<nEngines, nMakers, gotEngines, gotMakers, refused, callers,
                 pc, frame, last>>

(***************************************************************************)
(* How an operation ends: it returns a value or lets an exception out.     *)
(***************************************************************************)
Outcome(t, e, v) ==
  [op |-> frame[t].op, mode |-> frame[t].mode, commit |-> frame[t].commit,
   raised |-> e, value |-> v, body |-> frame[t].body,
   calls |-> frame[t].calls, entered |-> frame[t].body # "none",
   kept |-> frame[t].before = Fields]

Finish(t, e, v) ==
  /\ last' = [last EXCEPT ![t] = Outcome(t, e, v)]
  /\ frame' = [frame EXCEPT ![t] = NoFrame]
  /\ pc' = [pc EXCEPT ![t] = "idle"]

Goto(t, label) == pc' = [pc EXCEPT ![t] = label]

Begin(t, op, m, commit, label) ==
  /\ built = "yes"
  /\ t \in callers
  /\ pc[t] = "idle"
  /\ frame' = [frame EXCEPT ![t] = [NoFrame EXCEPT !.op = op, !.mode = m,
                                      !.commit = commit, !.before = Fields]]
  /\ Goto(t, label)
  /\ UNCHANGED <<built, initArgs, initError, url, engineField, makerField,
                 nEngines, nMakers, gotEngines, gotMakers, refused, callers,
                 last>>

\* a read of the sync_engine / async_engine property begins
engine_get(t, m) == Begin(t, "engine", m, FALSE, "engine_check")
\* a read of the sync_sessionmaker / async_sessionmaker property begins
sessionmaker_get(t, m) == Begin(t, "sessionmaker", m, FALSE, "maker_check")
\* `with init.session(commit=c)` / `async with init.async_session(commit=c)`
session_enter(t, m, commit) == Begin(t, "session", m, commit, "maker_check")

(***************************************************************************)
(* The engine property: sync_engine / async_engine                         *)
(***************************************************************************)
\* the cache is never consulted
EngineMissing_Always(m) == TRUE

\* `if self._sync_engine is None:`
EngineMissing(m) == engineField[m] = None

EngineCheck(t) ==
  /\ pc[t] = "engine_check"
  /\ Goto(t, IF EngineMissing(frame[t].mode) THEN "engine_create"
                                             ELSE "engine_return")
  /\ UNCHANGED <<built, initArgs, initError, url, engineField, makerField,
                 nEngines, nMakers, gotEngines, gotMakers, refused, callers,
                 frame, last>>

\* only None is refused, the empty string is taken for a URL
UrlMissing_NoneOnly(m) == url[m] = None

\* _require_sync_url / _require_async_url raises
UrlMissing(m) == ~Truthy(url[m])

\* `url = self._require_sync_url()` and `create_engine(url, ...)`
EngineCreate(t) ==
  LET m == frame[t].mode IN
  /\ pc[t] = "engine_create"
  /\ IF UrlMissing(m)
       THEN /\ Finish(t, RuntimeError, None)
            /\ refused' = refused \cup {m}
            /\ UNCHANGED nEngines
       ELSE /\ nEngines' = [nEngines EXCEPT ![m] = @ + 1]
            /\ frame' = [frame EXCEPT ![t].new =
                 [kind |-> "Engine", mode |-> m, id |-> nEngines[m] + 1,
                  url |-> url[m]]]
            /\ Goto(t, "engine_assign")
            /\ UNCHANGED <<last, refused>>
  /\ UNCHANGED <<built, initArgs, initError, url, engineField, makerField,
                 nMakers, gotEngines, gotMakers, callers>>

\* `self._sync_engine = ...`
EngineAssign(t) ==
  /\ pc[t] = "engine_assign"
  /\ engineField' = [engineField EXCEPT ![frame[t].mode] = frame[t].new]
  /\ Goto(t, "engine_return")
  /\ UNCHANGED <<built, initArgs, initError, url, makerField, nEngines,
                 nMakers, gotEngines, gotMakers, refused, callers, frame,
                 last>>

\* `return self._sync_engine`, to the caller or to the session-factory property
EngineReturn(t) ==
  LET m == frame[t].mode
      v == engineField[m] IN
  /\ pc[t] = "engine_return"
  /\ gotEngines' = [gotEngines EXCEPT ![m] = @ \cup {v}]
  /\ IF frame[t].op = "engine"
       THEN Finish(t, None, v)
       ELSE /\ frame' = [frame EXCEPT ![t].engine = v]
            /\ Goto(t, "maker_create")
            /\ UNCHANGED last
  /\ UNCHANGED <<built, initArgs, initError, url, engineField, makerField,
                 nEngines, nMakers, gotMakers, refused, callers>>

(***************************************************************************)
(* The session-factory property: sync_sessionmaker / async_sessionmaker    *)
(***************************************************************************)
\* `if self._sync_sessionmaker is None:`
MakerMissing(m) == makerField[m] = None

MakerCheck(t) ==
  /\ pc[t] = "maker_check"
  /\ Goto(t, IF MakerMissing(frame[t].mode) THEN "engine_check"
                                            ELSE "maker_return")
  /\ UNCHANGED <<built, initArgs, initError, url, engineField, makerField,
                 nEngines, nMakers, gotEngines, gotMakers, refused, callers,
                 frame, last>>

\* `sessionmaker(engine, expire_on_commit=False, class_=Session, ...)`
MakerCreate(t) ==
  LET m == frame[t].mode IN
  /\ pc[t] = "maker_create"
  /\ nMakers' = [nMakers EXCEPT ![m] = @ + 1]
  /\ frame' = [frame EXCEPT ![t].new =
       [kind |-> "sessionmaker", mode |-> m, id |-> nMakers[m] + 1,
        bind |-> frame[t].engine, expire_on_commit |-> FALSE]]
  /\ Goto(t, "maker_assign")
  /\ UNCHANGED <<built, initArgs, initError, url, engineField, makerField,
                 nEngines, gotEngines, gotMakers, refused, callers, last>>

\* `self._sync_sessionmaker = ...`
MakerAssign(t) ==
  /\ pc[t] = "maker_assign"
  /\ makerField' = [makerField EXCEPT ![frame[t].mode] = frame[t].new]
  /\ Goto(t, "maker_return")
  /\ UNCHANGED <<built, initArgs, initError, url, engineField, nEngines,
                 nMakers, gotEngines, gotMakers, refused, callers, frame,
                 last>>

\* `return self._sync_sessionmaker`; in a scope, `session = factory()` and the
\* generator runs to its `yield session`
MakerReturn(t) ==
  LET m == frame[t].mode
      v == makerField[m] IN
  /\ pc[t] = "maker_return"
  /\ gotMakers' = [gotMakers EXCEPT ![m] = @ \cup {v}]
  /\ IF frame[t].op = "sessionmaker"
       THEN Finish(t, None, v)
       ELSE /\ frame' = [frame EXCEPT ![t].body = "running"]
            /\ Goto(t, "yielded")
            /\ UNCHANGED last
  /\ UNCHANGED <<built, initArgs, initError, url, engineField, makerField,
                 nEngines, nMakers, gotEngines, refused, callers>>

(***************************************************************************)
(* The scoped session: InitMagic.session / InitMagic.async_session.  The   *)
(* calls made on the session of the scope are recorded in frame[t].calls.  *)
(***************************************************************************)
\* how the consumer's body may end; only a task can be cancelled
BodyEnds(m) == IF m = "async" THEN {"returns", "raises", "cancelled"}
                              ELSE {"returns", "raises"}

\* what is thrown into the generator at its `yield`
Thrown(how) == CASE how = "returns" -> None
                 [] how = "raises" -> BodyError
                 [] how = "cancelled" -> CancelledError

\* the close sits in the handler instead of `finally:`
Handler_CloseInExcept(e) == IF ExceptException(e) THEN "rollback" ELSE "exit"

\* where an exception raised inside the `try` goes: `except Exception:` or,
\* past it, straight to `finally:`
Handler(e) == IF ExceptException(e) THEN "rollback" ELSE "close"

\* the commit flag is ignored and nothing is committed
AfterYield_NoCommit(commit) == "close"

\* `if commit: session.commit()`
AfterYield(commit) == IF commit THEN "commit" ELSE "close"

Called(t, call, ok) ==
  [frame EXCEPT ![t].calls = Append(@, [op |-> call, ok |-> ok])]

\* the body of the `with` block ends and the generator is resumed
Body(t, how) ==
  /\ pc[t] = "yielded"
  /\ how \in BodyEnds(frame[t].mode)
  /\ frame' = [frame EXCEPT ![t].body = how, ![t].exc = Thrown(how)]
  /\ Goto(t, IF how = "returns" THEN AfterYield(frame[t].commit)
                                ELSE Handler(Thrown(how)))
  /\ UNCHANGED <<built, initArgs, initError, url, engineField, makerField,
                 nEngines, nMakers, gotEngines, gotMakers, refused, callers,
                 last>>

\* `session.commit()`, which returns or raises
Commit(t, ok) ==
  /\ pc[t] = "commit"
  /\ frame' = [Called(t, "commit", ok) EXCEPT ![t].exc =
                 IF ok THEN None ELSE CommitError]
  /\ Goto(t, IF ok THEN "close" ELSE Handler(CommitError))
  /\ UNCHANGED <<built, initArgs, initError, url, engineField, makerField,
                 nEngines, nMakers, gotEngines, gotMakers, refused, callers,
                 last>>

\* a failure of the rollback is not swallowed
AfterRollback_Masking(caught, ok) == IF ok THEN caught ELSE RollbackError

\* the exception in flight after `try: session.rollback()` / `except
\* Exception: pass` / `raise`
AfterRollback(caught, ok) == caught

\* the `except Exception:` block
Rollback(t, ok) ==
  /\ pc[t] = "rollback"
  /\ frame' = [Called(t, "rollback", ok) EXCEPT ![t].exc =
                 AfterRollback(frame[t].exc, ok)]
  /\ Goto(t, "close")
  /\ UNCHANGED <<built, initArgs, initError, url, engineField, makerField,
                 nEngines, nMakers, gotEngines, gotMakers, refused, callers,
                 last>>

\* the exception in flight after `try: session.close()` / `except Exception:
\* pass`
AfterClose(inflight, ok) == inflight

\* the `finally:` block
Close(t, ok) ==
  /\ pc[t] = "close"
  /\ frame' = [Called(t, "close", ok) EXCEPT ![t].exc =
                 AfterClose(frame[t].exc, ok)]
  /\ Goto(t, "exit")
  /\ UNCHANGED <<built, initArgs, initError, url, engineField, makerField,
                 nEngines, nMakers, gotEngines, gotMakers, refused, callers,
                 last>>

\* the generator ends: the `with` statement returns or lets the exception out
Exit(t) ==
  /\ pc[t] = "exit"
  /\ Finish(t, frame[t].exc, None)
  /\ UNCHANGED <<built, initArgs, initError, url, engineField, makerField,
                 nEngines, nMakers, gotEngines, gotMakers, refused, callers>>

(***************************************************************************)
(* Model types.  types[c] is a class: its __name__ (as character codes),   *)
(* its base class and the _session set in its own namespace, if any.       *)
(* objs[i] is an instance: its class and the _session set on it, if any.   *)
(***************************************************************************)
Unset == [kind |-> "unset"]
Session(n) == [kind |-> "Session", id |-> n]
Sessions == {Session(1), Session(2)}
TypeRef(c) == [kind |-> "type", id |-> c]

\* "SessionMixin", "DummyModel", "ExplicitNameModel", "SessionBoundModel"
SessionMixinName ==
  <<83, 101, 115, 115, 105, 111, 110, 77, 105, 120, 105, 110>>
DummyModelName == <<68, 117, 109, 109, 121, 77, 111, 100, 101, 108>>
ExplicitNameModelName ==
  <<69, 120, 112, 108, 105, 99, 105, 116, 78, 97, 109, 101, 77, 111, 100,
    101, 108>>
SessionBoundModelName ==
  <<83, 101, 115, 115, 105, 111, 110, 66, 111, 117, 110, 100, 77, 111, 100,
    101, 108>>

\* `class SessionMixin: _session = None` and the two model types that derive
\* from it without a _session of their own
SessionMixin == [name |-> SessionMixinName, base |-> 0, own |-> None]
DummyModel == [name |-> DummyModelName, base |-> 1, own |-> Unset]
ExplicitNameModel == [name |-> ExplicitNameModelName, base |-> 1, own |-> Unset]

\* the most session-bound types and the most instances a run creates
MaxBoundTypes == 2
MaxObjects == 1

VARIABLES
  types,          \* the classes that exist
  objs,           \* the instances that exist
  session,        \* DBManager.session
  _models,        \* DBManager._models: logical name -> class
  registered,     \* the register_model calls made, in order
  ret             \* the last call on a model type, instance or registry

modelVars == <<types, objs, session, _models, registered, ret>>
vars == <<magicVars, modelVars>>

NoRet == [op |-> "none"]

\* the types written in source files, and the types with_session has made
BaseTypes == {c \in 1..Len(types) : types[c].name # SessionBoundModelName}
BoundTypes == {c \in 1..Len(types) : types[c].name = SessionBoundModelName}
\* the model types: every type but SessionMixin itself
ModelTypes == 2..Len(types)
RoomForType == Cardinality(BoundTypes) < MaxBoundTypes

\* cls._session, found along the base classes
RECURSIVE ClassSession(_, _)
ClassSession(ts, c) ==
  IF ts[c].own # Unset THEN ts[c].own ELSE ClassSession(ts, ts[c].base)

\* getattr(instance, '_session', None)
InstanceSession(ts, o) ==
  IF o.own # Unset THEN o.own ELSE ClassSession(ts, o.cls)

\* issubclass(c, d)
RECURSIVE IsSubclass(_, _, _)
IsSubclass(ts, c, d) ==
  \/ c = d
  \/ ts[c].base # 0 /\ IsSubclass(ts, ts[c].base, d)

\* the session is set on the calling class itself, no subclass is made
WithSessionTypes_InPlace(ts, c, s) == [ts EXCEPT ![c].own = s]

\* `class SessionBoundModel(cls): pass` and `SessionBoundModel._session = s`
WithSessionTypes(ts, c, s) ==
  Append(ts, [name |-> SessionBoundModelName, base |-> c, own |-> s])

\* the class that with_session returns
WithSessionResult(ts, c, s) == Len(WithSessionTypes(ts, c, s))

\* SessionMixin.with_session, called on a model type
with_session(c, s) ==
  /\ c \in ModelTypes
  /\ RoomForType
  /\ types' = WithSessionTypes(types, c, s)
  /\ ret' = [op |-> "with_session", cls |-> c, arg |-> s,
             value |-> WithSessionResult(types, c, s), known |-> Len(types),
             kept |-> SubSeq(types', 1, Len(types)) = types]
  /\ UNCHANGED <<objs, session, _models, registered>>

\* an instance of a model type is created
Instantiate(c) ==
  /\ c \in ModelTypes
  /\ Len(objs) < MaxObjects
  /\ objs' = Append(objs, [cls |-> c, own |-> Unset])
  /\ ret' = [op |-> "new", cls |-> c, value |-> Len(objs) + 1]
  /\ UNCHANGED <<types, session, _models, registered>>

\* SessionMixin.bind_session
bind_session(i, s) ==
  /\ i \in 1..Len(objs)
  /\ objs' = [objs EXCEPT ![i].own = s]
  /\ ret' = [op |-> "bind_session", self |-> i, arg |-> s, value |-> i]
  /\ UNCHANGED <<types, session, _models, registered>>

(***************************************************************************)
(* SessionRequired.  kwargs is a function of the keyword names passed; the *)
(* result tells whether the wrapped method ran and with which session.     *)
(***************************************************************************)
NoKwargs == <<>>
Kwargs(v) == [k \in {"session"} |-> v]
Raises(e) == [raised |-> e, ran |-> FALSE, with |-> None]
Runs(kwargs) == [raised |-> None, ran |-> TRUE, with |-> kwargs["session"]]

\* the bound session is preferred to the keyword argument
sync_wrapper_BoundFirst(o, kwargs) ==
  LET bound == InstanceSession(types, o) IN
  IF bound # None THEN Runs(Kwargs(bound))
  ELSE IF "session" \in DOMAIN kwargs THEN Runs(kwargs)
  ELSE Raises(RuntimeError)

sync_wrapper(o, kwargs) ==
  IF "session" \notin DOMAIN kwargs
    THEN LET bound == InstanceSession(types, o) IN
         IF bound = None THEN Raises(RuntimeError)
         ELSE Runs(Kwargs(bound))
    ELSE Runs(kwargs)

async_wrapper(o, kwargs) ==
  IF "session" \notin DOMAIN kwargs
    THEN LET bound == InstanceSession(types, o) IN
         IF bound = None THEN Raises(RuntimeError)
         ELSE Runs(Kwargs(bound))
    ELSE Runs(kwargs)

\* SessionRequired(async_mode).__call__(func)
Decorated(async_mode, o, kwargs) ==
  IF async_mode THEN async_wrapper(o, kwargs) ELSE sync_wrapper(o, kwargs)

\* a decorated method is called on instance i
Call(i, async_mode, kwargs) ==
  /\ i \in 1..Len(objs)
  /\ ret' = [op |-> "call", self |-> i, async_mode |-> async_mode,
             kwargs |-> kwargs,
             result |-> Decorated(async_mode, objs[i], kwargs)]
  /\ UNCHANGED <<types, objs, session, _models, registered>>

(***************************************************************************)
(* DBManager.  Names are strings of character codes; a name argument is    *)
(* None or a string.                                                       *)
(***************************************************************************)
Name(chars) == [kind |-> "str", val |-> chars]
\* "custom", "session", "dummymodel", "nonexistent"
Custom == <<99, 117, 115, 116, 111, 109>>
SessionAttr == <<115, 101, 115, 115, 105, 111, 110>>
Dummymodel == <<100, 117, 109, 109, 121, 109, 111, 100, 101, 108>>
Nonexistent == <<110, 111, 110, 101, 120, 105, 115, 116, 101, 110, 116>>
\* "_models", "register_model", "model"
ModelsAttr == <<95, 109, 111, 100, 101, 108, 115>>
RegisterModelAttr ==
  <<114, 101, 103, 105, 115, 116, 101, 114, 95, 109, 111, 100, 101, 108>>
ModelAttr == <<109, 111, 100, 101, 108>>

\* str.lower(), on ASCII
Lower(chars) ==
  [i \in 1..Len(chars) |->
     IF chars[i] \in 65..90 THEN chars[i] + 32 ELSE chars[i]]

\* the `name` arguments given to register_model
NameArgs ==
  {None, Name(<<>>), Name(Custom), Name(SessionAttr), Name(Dummymodel)}
\* the attribute names looked up on the registry
LookupNames ==
  {<<>>, Custom, SessionAttr, Dummymodel, Nonexistent, ModelAttr,
   Lower(SessionBoundModelName), Lower(ExplicitNameModelName)}

\* the class name is used as it is spelt
ModelName_NoLower(class, name) ==
  IF name # None /\ Len(name.val) > 0 THEN name.val ELSE class.name

\* `model_name = name or model_class.__name__.lower()`
ModelName(class, name) ==
  IF name # None /\ Len(name.val) > 0 THEN name.val ELSE Lower(class.name)

\* `self._models[model_name] = bound_model`
Put(models, key, c) ==
  [k \in DOMAIN models \cup {key} |-> IF k = key THEN c ELSE models[k]]

\* DBManager.register_model
register_model(c, name) ==
  LET bound == WithSessionResult(types, c, session) IN
  /\ c \in ModelTypes
  /\ RoomForType
  /\ types' = WithSessionTypes(types, c, session)
  /\ _models' = Put(_models, ModelName(types[c], name), bound)
  /\ registered' = Append(registered,
                          [cls |-> c, name |-> name, bound |-> bound])
  /\ ret' = [op |-> "register_model", cls |-> c, name |-> name,
             value |-> TypeRef(bound)]
  /\ UNCHANGED <<objs, session>>

\* DBManager.model
model(c) ==
  /\ c \in ModelTypes
  /\ RoomForType
  /\ types' = WithSessionTypes(types, c, session)
  /\ UNCHANGED <<objs, session, _models, registered>>
  /\ ret' = [op |-> "model", cls |-> c,
             value |-> TypeRef(WithSessionResult(types, c, session)),
             kept |-> _models' = _models]

\* the names that ordinary attribute lookup finds on a DBManager: the
\* instance attributes set by __init__ and the methods of the class
GenuineAttrs == {SessionAttr, ModelsAttr, RegisterModelAttr, ModelAttr}

Genuine(n) ==
  IF n = SessionAttr THEN session
  ELSE IF n = ModelsAttr THEN [kind |-> "dict"]
  ELSE [kind |-> "method", name |-> n]

\* DBManager.__getattr__
__getattr__(n) ==
  IF n \in DOMAIN _models THEN TypeRef(_models[n]) ELSE None

\* `manager.<n>`: __getattr__ is called only when ordinary lookup fails
GetAttribute(n) == IF n \in GenuineAttrs THEN Genuine(n) ELSE __getattr__(n)

\* attribute-style lookup on the registry
lookup(n) ==
  /\ ret' = [op |-> "lookup", name |-> n, value |-> GetAttribute(n)]
  /\ UNCHANGED <<types, objs, session, _models, registered>>

InitModelState ==
  /\ types = <<SessionMixin, DummyModel, ExplicitNameModel>>
  /\ objs = <<>>
  /\ session = None
  /\ _models = [k \in {} |-> 0]
  /\ registered = <<>>
  /\ ret = NoRet

Idle == UNCHANGED modelVars

NextMagic ==
  \/ \E su \in Urls, au \in Urls : Construct(su, au) /\ Idle
  \/ \E t \in Threads, m \in Modes : engine_get(t, m) /\ Idle
  \/ \E t \in Threads, m \in Modes : sessionmaker_get(t, m) /\ Idle
  \/ \E t \in Threads, m \in Modes, c \in BOOLEAN :
       session_enter(t, m, c) /\ Idle
  \/ \E t \in Threads : EngineCheck(t) /\ Idle
  \/ \E t \in Threads : EngineCreate(t) /\ Idle
  \/ \E t \in Threads : EngineAssign(t) /\ Idle
  \/ \E t \in Threads : EngineReturn(t) /\ Idle
  \/ \E t \in Threads : MakerCheck(t) /\ Idle
  \/ \E t \in Threads : MakerCreate(t) /\ Idle
  \/ \E t \in Threads : MakerAssign(t) /\ Idle
  \/ \E t \in Threads : MakerReturn(t) /\ Idle
  \/ \E t \in Threads, how \in {"returns", "raises", "cancelled"} :
       Body(t, how) /\ Idle
  \/ \E t \in Threads, ok \in BOOLEAN : Commit(t, ok) /\ Idle
  \/ \E t \in Threads, ok \in BOOLEAN : Rollback(t, ok) /\ Idle
  \/ \E t \in Threads, ok \in BOOLEAN : Close(t, ok) /\ Idle
  \/ \E t \in Threads : Exit(t) /\ Idle

\* one caller at a time uses an InitMagic instance
Init == InitMagicState /\ InitModelState
Next == NextMagic
Spec == Init /\ [][Next]_vars

\* two threads share an instance built with a synchronous URL and read its
\* properties
NextConcurrent ==
  \/ \E t \in Threads, m \in Modes : engine_get(t, m) /\ Idle
  \/ \E t \in Threads, m \in Modes : sessionmaker_get(t, m) /\ Idle
  \/ \E t \in Threads : EngineCheck(t) /\ Idle
  \/ \E t \in Threads : EngineCreate(t) /\ Idle
  \/ \E t \in Threads : EngineAssign(t) /\ Idle
  \/ \E t \in Threads : EngineReturn(t) /\ Idle
  \/ \E t \in Threads : MakerCheck(t) /\ Idle
  \/ \E t \in Threads : MakerCreate(t) /\ Idle
  \/ \E t \in Threads : MakerAssign(t) /\ Idle
  \/ \E t \in Threads : MakerReturn(t) /\ Idle

InitConcurrent ==
  /\ built = "yes"
  /\ initArgs = <<Str("sqlite:///:memory:"), None>>
  /\ initError = None
  /\ url = [sync |-> Str("sqlite:///:memory:"), async |-> None]
  /\ engineField = [m \in Modes |-> None]
  /\ makerField = [m \in Modes |-> None]
  /\ nEngines = [m \in Modes |-> 0]
  /\ nMakers = [m \in Modes |-> 0]
  /\ gotEngines = [m \in Modes |-> {}]
  /\ gotMakers = [m \in Modes |-> {}]
  /\ refused = {}
  /\ pc = [t \in Threads |-> "idle"]
  /\ frame = [t \in Threads |-> NoFrame]
  /\ last = [t \in Threads |-> NoLast]
  /\ callers = Threads
  /\ InitModelState

SpecConcurrent == InitConcurrent /\ [][NextConcurrent]_vars

\* model types, their instances and decorated methods
Still == UNCHANGED magicVars

NextModels ==
  \/ \E c \in ModelTypes, s \in Sessions : with_session(c, s) /\ Still
  \/ \E c \in ModelTypes : Instantiate(c) /\ Still
  \/ \E i \in 1..MaxObjects, s \in Sessions : bind_session(i, s) /\ Still
  \/ \E i \in 1..MaxObjects, a \in BOOLEAN,
        k \in {NoKwargs} \cup {Kwargs(v) : v \in Sessions \cup {None}} :
       Call(i, a, k) /\ Still

InitModels ==
  /\ InitMagicState
  /\ types = <<SessionMixin, DummyModel>>
  /\ objs = <<>>
  /\ session = None
  /\ _models = [k \in {} |-> 0]
  /\ registered = <<>>
  /\ ret = NoRet

SpecModels == InitModels /\ [][NextModels]_vars

\* a registry built around one session
NextRegistry ==
  \/ \E c \in ModelTypes, n \in NameArgs : register_model(c, n) /\ Still
  \/ \E c \in ModelTypes : model(c) /\ Still
  \/ \E n \in LookupNames : lookup(n) /\ Still

InitRegistry ==
  /\ InitMagicState
  /\ types = <<SessionMixin, DummyModel, ExplicitNameModel>>
  /\ objs = <<>>
  /\ session \in Sessions
  /\ _models = [k \in {} |-> 0]
  /\ registered = <<>>
  /\ ret = NoRet

SpecRegistry == InitRegistry /\ [][NextRegistry]_vars

(***************************************************************************)
(* Properties of the scoped session                                        *)
(***************************************************************************)
\* the names of the calls made on the session of a scope, in order
Names(calls) == [i \in 1..Len(calls) |-> calls[i].op]
Count(calls, op) == Cardinality({i \in 1..Len(calls) : calls[i].op = op})
Failed(calls, op) == \E i \in 1..Len(calls) : calls[i].op = op /\ ~calls[i].ok

\* thread t has left a scope in which a session was created
Left(t) == last[t].op = "session" /\ last[t].entered

\* C1 as stated: a scope entered with commit=True whose body returns makes
\* exactly one commit and then exactly one close on its session, and no
\* rollback.
C1_AsStated ==
  \A t \in Threads :
    Left(t) /\ last[t].commit /\ last[t].body = "returns"
      => Names(last[t].calls) = <<"commit", "close">>

\* C1, amended: a scope entered with commit=True whose body returns makes
\* exactly one commit and exactly one close, the commit first; there is no
\* rollback unless the commit itself raised, and then one rollback attempt
\* lies between the commit and the close and the commit's fault is let out.
C1_CommitThenClose ==
  \A t \in Threads :
    Left(t) /\ last[t].commit /\ last[t].body = "returns"
      => /\ last[t].raised \in {None, CommitError}
         /\ last[t].raised = CommitError <=> Failed(last[t].calls, "commit")
         /\ Names(last[t].calls) =
              IF last[t].raised = None THEN <<"commit", "close">>
              ELSE <<"commit", "rollback", "close">>

C1_Witness ==
  \E t \in Threads :
    /\ Left(t) /\ last[t].commit /\ last[t].body = "returns"
    /\ last[t].mode = "async"
    /\ last[t].raised = None
    /\ Names(last[t].calls) = <<"commit", "close">>

\* C2: a scope whose body raises a fault, with either commit flag and in
\* either mode, makes one rollback attempt, then one close, never a commit,
\* and lets the body's own fault out, also when the rollback or the close
\* raised.
C2_RollbackCloseReraise ==
  \A t \in Threads :
    Left(t) /\ last[t].body = "raises"
      => /\ Names(last[t].calls) = <<"rollback", "close">>
         /\ last[t].raised = BodyError

C2_Witness ==
  \E t \in Threads :
    /\ Left(t) /\ last[t].body = "raises" /\ last[t].commit
    /\ Failed(last[t].calls, "rollback")
    /\ Failed(last[t].calls, "close")
    /\ last[t].raised = BodyError

\* C3: a consumer of async_session cancelled inside the scope sees a rollback
\* attempt, then the close, and only then the cancellation.
C3_CancelRollsBack ==
  \A t \in Threads :
    Left(t) /\ last[t].mode = "async" /\ last[t].body = "cancelled"
      => /\ Names(last[t].calls) = <<"rollback", "close">>
         /\ last[t].raised = CancelledError

\* C4: a scope in which a session was created has closed it exactly once when
\* it is left, on every path, and at no time is anything called on a session
\* after its close.
C4_ClosedOnce ==
  \A t \in Threads :
    /\ \A i \in 1..Len(frame[t].calls) :
         frame[t].calls[i].op = "close" => i = Len(frame[t].calls)
    /\ Left(t) =>
         /\ Count(last[t].calls, "close") = 1
         /\ last[t].calls[Len(last[t].calls)].op = "close"

C4_Witness ==
  \E t \in Threads :
    /\ Left(t) /\ last[t].body = "cancelled"
    /\ Count(last[t].calls, "close") = 1
    /\ last[t].raised = CancelledError

(***************************************************************************)
(* Properties of the cached engines and session factories                  *)
(***************************************************************************)
Configured(m) == built = "yes" /\ Truthy(url[m])

\* C5: with one caller at a time, a mode's engine and session factory are
\* each constructed at most once, every access returns the one cached
\* object, and a cached session factory implies the cached engine it is
\* bound to.
C5_CachedOnce ==
  \A m \in Modes :
    /\ nEngines[m] <= 1 /\ nMakers[m] <= 1
    /\ gotEngines[m] \subseteq {engineField[m]} \ {None}
    /\ gotMakers[m] \subseteq {makerField[m]} \ {None}
    /\ makerField[m] # None =>
         engineField[m] # None /\ makerField[m].bind = engineField[m]

C5_Witness ==
  \E m \in Modes, t \in Threads :
    /\ Configured(m)
    /\ nMakers[m] = 1 /\ nEngines[m] = 1
    /\ gotMakers[m] # {}
    /\ last[t].op = "engine" /\ last[t].mode = m
    /\ last[t].value = engineField[m]

\* C6: construction fails exactly when both URLs are absent; on an instance
\* without a mode's URL every access of that mode's engine, session factory
\* or scope raises the configuration error, caches nothing and changes none
\* of the four cached fields, and the accesses of a configured mode succeed
\* all the same.
C6_ConfigurationErrors ==
  /\ built # "no" =>
       (built = "failed" <=>
          initArgs[1] \in {None, Str("")} /\ initArgs[2] \in {None, Str("")})
  /\ built = "failed" <=> initError = ValueError
  /\ \A m \in Modes :
       built = "yes" /\ url[m] \in {None, Str("")} =>
         /\ engineField[m] = None /\ makerField[m] = None
         /\ nEngines[m] = 0 /\ nMakers[m] = 0
         /\ \A t \in Threads :
              last[t].op # "none" /\ last[t].mode = m =>
                /\ last[t].raised = RuntimeError
                /\ ~last[t].entered
                /\ last[t].kept
  /\ \A m \in Modes, t \in Threads :
       /\ built = "yes" /\ url[m] \notin {None, Str("")}
       /\ last[t].op # "none" /\ last[t].mode = m
       => /\ last[t].raised # RuntimeError
          /\ last[t].op = "engine" => last[t].value = engineField[m]
          /\ last[t].op = "sessionmaker" => last[t].value = makerField[m]
          /\ last[t].op = "session" => last[t].entered

C6_Witness ==
  \E m \in Modes, t \in Threads :
    /\ built = "yes" /\ url[m] = Str("")
    /\ m \in refused
    /\ last[t].op = "session" /\ last[t].mode # m
    /\ last[t].raised = None /\ last[t].entered

\* C10: when several threads make the first access concurrently, the engine
\* and the session factory of a mode are still constructed at most once and
\* every caller receives the same object.
C10_OncePerMode ==
  \A m \in Modes :
    /\ nEngines[m] <= 1 /\ nMakers[m] <= 1
    /\ Cardinality(gotEngines[m]) <= 1
    /\ Cardinality(gotMakers[m]) <= 1

(***************************************************************************)
(* Properties of model types, decorated methods and the registry           *)
(***************************************************************************)
\* C7: the session of every base model type stays None; with_session(s)
\* returns a type that did not exist before, a proper subclass of the calling
\* type whose instances report s, and leaves every earlier type as it was.
C7_BaseUntouched ==
  /\ \A c \in BaseTypes :
       /\ ClassSession(types, c) = None
       /\ types[c].own = (IF c = 1 THEN None ELSE Unset)
  /\ ret.op = "with_session" =>
       /\ ret.value \in 1..Len(types)
       /\ ret.value \notin 1..ret.known
       /\ ret.value # ret.cls
       /\ IsSubclass(types, ret.value, ret.cls)
       /\ types[ret.value].own = ret.arg
       /\ InstanceSession(types, [cls |-> ret.value, own |-> Unset]) = ret.arg
       /\ ret.kept
  /\ \A i \in 1..Len(objs) :
       objs[i].own = Unset /\ objs[i].cls \in BoundTypes =>
         InstanceSession(types, objs[i]) = types[objs[i].cls].own

C7_Witness ==
  /\ ret.op = "with_session"
  /\ ret.cls \in BoundTypes
  /\ types[ret.cls].own = ret.arg
  /\ \E i \in 1..Len(objs) : objs[i].cls = ret.cls /\ objs[i].own \in Sessions

\* C8: a decorated method called with an explicit session= runs with exactly
\* that value whatever the receiver is bound to; called without it, it runs
\* with the receiver's bound session, or, the receiver having none, raises
\* the session-unavailable error without running; in both conventions.
C8_ExplicitFirst ==
  ret.op = "call" =>
    LET o == objs[ret.self]
        bound == IF o.own # Unset THEN o.own ELSE types[o.cls].own
        r == ret.result IN
    IF "session" \in DOMAIN ret.kwargs
      THEN r.ran /\ r.raised = None /\ r.with = ret.kwargs["session"]
    ELSE IF bound \in Sessions
      THEN r.ran /\ r.raised = None /\ r.with = bound
    ELSE ~r.ran /\ r.raised = RuntimeError

C8_Witness ==
  /\ ret.op = "call" /\ ret.async_mode
  /\ "session" \in DOMAIN ret.kwargs
  /\ objs[ret.self].own = Unset
  /\ types[objs[ret.self].cls].own \in Sessions \ {ret.kwargs["session"]}
  /\ ret.kwargs["session"] \in Sessions
  /\ ret.result.with = ret.kwargs["session"]

\* the register_model calls that stored under the name n, when the name of a
\* call is given by Key
StoredAs(Key(_), n) == {i \in 1..Len(registered) : Key(registered[i]) = n}
Latest(S) == CHOOSE i \in S : \A j \in S : j <= i

\* the name of a registration: the explicit name, or the lower-cased class
\* name when none (or an empty one) is given
GivenName(call) ==
  IF call.name # None /\ call.name.val # <<>> THEN call.name.val
  ELSE Lower(types[call.cls].name)

\* C9 as stated: attribute lookup of any name under which a model was
\* registered returns the bound type registered last under it, bound to the
\* registry's session; of a name never registered (read here for the names
\* the registry has no attribute of), None; and model() leaves the mapping
\* alone.
C9_AsStated ==
  /\ ret.op = "lookup" =>
       LET hits == StoredAs(GivenName, ret.name) IN
       IF hits # {}
         THEN /\ ret.value = TypeRef(registered[Latest(hits)].bound)
              /\ ClassSession(types, ret.value.id) = session
       ELSE ret.name \notin GenuineAttrs => ret.value = None
  /\ ret.op = "model" => ret.kept

\* C9, amended: the name of a registration is the explicit name when a
\* non-empty one is given, else the lower-cased class name; lookup of such a
\* name that is no genuine attribute of the registry returns the bound type
\* registered last under it, bound to the registry's session; lookup of any
\* other name that is no genuine attribute returns None; a genuine attribute
\* (session, _models, register_model, model) is returned as it is, whatever
\* was registered; and model() leaves the mapping alone.
C9_Lookup ==
  /\ ret.op = "lookup" =>
       LET hits == StoredAs(GivenName, ret.name) IN
       IF ret.name \in {SessionAttr, ModelsAttr, RegisterModelAttr, ModelAttr}
         THEN /\ ret.value # None /\ ret.value.kind # "type"
              /\ ret.name = SessionAttr => ret.value = session
       ELSE IF hits = {} THEN ret.value = None
       ELSE /\ ret.value = TypeRef(registered[Latest(hits)].bound)
            /\ ClassSession(types, ret.value.id) = session
  /\ ret.op = "model" =>
       ret.kept /\ ClassSession(types, ret.value.id) = session
  /\ ret.op = "register_model" => ClassSession(types, ret.value.id) = session

C9_Witness ==
  /\ ret.op = "lookup" /\ ret.name = Dummymodel
  /\ Cardinality(StoredAs(GivenName, Dummymodel)) = 2
  /\ \E i \in 1..Len(registered) : registered[i].name = None
  /\ ret.value = TypeRef(registered[Len(registered)].bound)

====
